---- MODULE Spec2Model ----
(***************************************************************************)
(* The chat relay server: the token-bucket rate limiter (app/core/         *)
(* rate_limiter.py), the rate-limiting middleware, and the chat endpoints  *)
(* with their streaming relay.                                             *)
(*                                                                         *)
(* Time is counted in whole ticks (one tick = one second of time.time()).  *)
(* A token count is held in units of 1/RATE_LIMIT_WINDOW of a token, so    *)
(* that time_passed * refill_rate = time_passed * RATE_LIMIT_REQUESTS /    *)
(* RATE_LIMIT_WINDOW is computed exactly: the model follows the code's     *)
(* arithmetic over the rationals and leaves float rounding out.            *)
(***************************************************************************)
EXTENDS Integers, Sequences, FiniteSets, TLC

\* settings.RATE_LIMIT_REQUESTS and settings.RATE_LIMIT_WINDOW (both are read
\* from the environment; the values are the quota of the spec's scenario
\* scaled down to 2 requests in a window of 3 ticks).
RATE_LIMIT_REQUESTS == 2
RATE_LIMIT_WINDOW == 3

\* Bounds of the model.
MaxTime == 7
MaxCost == 2

Procs == {"p1"}

\* The server processes of a fleet: each has its own rate_limiter, and all
\* use one shared store. The second process acts in the specifications of
\* the fleet only.
Fleet == {"p1", "p2"}
Keys == {"ip:10.0.0.1", "ip:10.0.0.2", "user:42"}

\* A key absent from local_buckets, and a hash absent from the shared store
\* (hgetall then returns the empty mapping).
NoBucket == [present |-> FALSE, tokens |-> 0, last_refill |-> 0]
NoHash == [present |-> FALSE, tokens |-> 0, last_refill |-> 0, ttl |-> 0]

VARIABLES
    now,            \* the value time.time() returns
    skewed,         \* the wall clock has been set back at least once
    redis_up,       \* the shared store answers
    phase,          \* per process: "new", "probed", "serving"
    redis_client,   \* per process: RateLimiter.redis_client, "None" or "Client"
    probe_failed,   \* per process: initialize() ran and its ping failed
    local_buckets,  \* per process: RateLimiter.local_buckets
    redis_store,    \* the shared store's hashes bucket:<key>, with their ttl
    last,           \* the admission check that has just returned or raised
    scen,           \* per key: progress of Check through the quota scenario
    win,            \* per key: the Checks of the window opened on a fresh bucket
    req,            \* the HTTP request being handled
    sess,           \* its streaming session (generate_stream and the upstream)
    tasks,          \* the request-handling tasks checking on the local backend
    call,           \* the last upstream call made: the request and what was sent
    auth            \* the users table and the last answer of an auth endpoint

rlvars == <<now, skewed, redis_up, phase, redis_client, probe_failed,
            local_buckets, redis_store, last, scen, win>>
rlkeep == <<now, skewed, redis_up, phase, redis_client, probe_failed,
            local_buckets, redis_store, scen, win>>
relayvars == <<req, sess>>
vars == <<now, skewed, redis_up, phase, redis_client, probe_failed,
          local_buckets, redis_store, last, scen, win, req, sess, tasks,
          call, auth>>
sidevars == <<tasks, call, auth>>

Min(a, b) == IF a <= b THEN a ELSE b

\* One token, and the bucket's capacity, in units of 1/RATE_LIMIT_WINDOW.
Unit == RATE_LIMIT_WINDOW
Capacity == RATE_LIMIT_REQUESTS * Unit

(***************************************************************************)
(* TokenBucket arithmetic (rate_limiter.py)                                *)
(***************************************************************************)

\* TokenBucket(capacity, refill_rate, tokens=capacity, last_refill=current_time):
\* the bucket a key gets when it is first seen. capacity and refill_rate are
\* the settings and are not stored per bucket here.
NewBucket(current_time) ==
    [present |-> TRUE, tokens |-> Capacity, last_refill |-> current_time]

\* tokens = min(capacity, tokens + time_passed * refill_rate), with
\* time_passed = current_time - last_refill taken as it comes (it is negative
\* when the clock value is earlier than last_refill).
Refill(tokens, last_refill, current_time) ==
    Min(Capacity, tokens + (current_time - last_refill) * RATE_LIMIT_REQUESTS)

\* CanServe gone wrong: no comparison, every check is served.
CanServeAlways(tokens, requests) == TRUE

\* CanServe gone wrong: the comparison made strict.
CanServeStrict(tokens, requests) == tokens > requests * Unit

\* tokens >= requests
CanServe(tokens, requests) == tokens >= requests * Unit

\* MemoryStep gone wrong: an admitted check leaves the tokens where they are.
MemoryStepKeepsTokens(stored, current_time, requests) ==
    LET bucket == IF stored.present THEN stored ELSE NewBucket(current_time)
        tokens == Min(Capacity, bucket.tokens
                      + (current_time - bucket.last_refill) * RATE_LIMIT_REQUESTS)
    IN  [decided |-> tokens,
         allowed |-> tokens >= requests * Unit,
         bucket  |-> [present |-> TRUE, tokens |-> tokens,
                      last_refill |-> current_time]]

\* _memory_rate_limit on the bucket of the key (created first when absent):
\* refill, stamp last_refill, and take the tokens when there are enough.
MemoryStep(stored, current_time, requests) ==
    LET bucket == IF stored.present THEN stored ELSE NewBucket(current_time)
        tokens == Refill(bucket.tokens, bucket.last_refill, current_time)
        allowed == CanServe(tokens, requests)
    IN  [decided |-> tokens,
         allowed |-> allowed,
         bucket  |-> [present |-> TRUE,
                      tokens |-> IF allowed THEN tokens - requests * Unit
                                 ELSE tokens,
                      last_refill |-> current_time]]

\* RedisStep gone wrong: the hash expires a tick after it is written.
RedisStepShortExpiry(bucket_data, current_time, requests) ==
    LET bucket == IF bucket_data.present
                  THEN [present |-> TRUE, tokens |-> bucket_data.tokens,
                        last_refill |-> bucket_data.last_refill]
                  ELSE [present |-> TRUE, tokens |-> Capacity,
                        last_refill |-> current_time]
        tokens == Min(Capacity, bucket.tokens
                      + (current_time - bucket.last_refill) * RATE_LIMIT_REQUESTS)
        allowed == tokens >= requests * Unit
    IN  [decided |-> tokens,
         allowed |-> allowed,
         bucket  |-> IF allowed
                     THEN [present |-> TRUE,
                           tokens |-> tokens - requests * Unit,
                           last_refill |-> current_time,
                           ttl |-> 1]
                     ELSE bucket_data]

\* _redis_rate_limit on the hash read by hgetall (empty when the key does not
\* exist): refill, and only when there are enough tokens write tokens and
\* last_refill back and set the key's expiry to 2 * RATE_LIMIT_WINDOW.
RedisStep(bucket_data, current_time, requests) ==
    LET bucket == IF bucket_data.present
                  THEN [present |-> TRUE, tokens |-> bucket_data.tokens,
                        last_refill |-> bucket_data.last_refill]
                  ELSE NewBucket(current_time)
        tokens == Refill(bucket.tokens, bucket.last_refill, current_time)
        allowed == CanServe(tokens, requests)
    IN  [decided |-> tokens,
         allowed |-> allowed,
         bucket  |-> IF allowed
                     THEN [present |-> TRUE,
                           tokens |-> tokens - requests * Unit,
                           last_refill |-> current_time,
                           ttl |-> RATE_LIMIT_WINDOW * 2]
                     ELSE bucket_data]

\* ProbedClient gone wrong: the except clause keeps the client from_url built.
ProbedClientKept(up) == "Client"

\* initialize(): from_url builds the client without connecting, ping() raises
\* when the store does not answer, and the except clause drops the client.
ProbedClient(up) == IF up THEN "Client" ELSE "None"

\* is_allowed: `if self.redis_client` picks the backend for this call.
UsesRedis(client) == client = "Client"

(***************************************************************************)
(* Observation of the checks (history variables, not program state)       *)
(***************************************************************************)

NoLast == [result |-> "none", proc |-> "", key |-> "", cost |-> 0, at |-> 0,
           backend |-> "none", had |-> FALSE, tokens0 |-> 0, t0 |-> 0,
           decided |-> 0]

\* The scenario of a quota of N and a window of W on a fresh key: N + 1 checks
\* of cost 1 in rapid succession (before a whole token has refilled), then one
\* check at least W after the last of them. n counts the checks that followed
\* the scenario so far and res holds their results; lastAt is the clock value
\* of check N + 1; off: a check left the scenario.
NoScen == [off |-> FALSE, n |-> 0, start |-> 0, lastAt |-> 0, res |-> <<>>]
OffScen == [off |-> TRUE, n |-> 0, start |-> 0, lastAt |-> 0, res |-> <<>>]

ScenNext(s, fresh, cost, at, result) ==
    IF s.off \/ s.n = RATE_LIMIT_REQUESTS + 2 THEN s
    ELSE IF cost # 1 \/ skewed THEN OffScen
    ELSE IF s.n = 0
         THEN IF fresh
              THEN [off |-> FALSE, n |-> 1, start |-> at, lastAt |-> 0,
                    res |-> <<result>>]
              ELSE OffScen
    ELSE IF s.n <= RATE_LIMIT_REQUESTS
         THEN IF (at - s.start) * RATE_LIMIT_REQUESTS < RATE_LIMIT_WINDOW
              THEN [s EXCEPT !.n = s.n + 1,
                             !.lastAt = IF s.n = RATE_LIMIT_REQUESTS
                                        THEN at ELSE 0,
                             !.res = Append(s.res, result)]
              ELSE OffScen
    ELSE IF at >= s.lastAt + RATE_LIMIT_WINDOW
         THEN [s EXCEPT !.n = s.n + 1, !.res = Append(s.res, result)]
         ELSE OffScen

\* The window of RATE_LIMIT_WINDOW ticks that the first check of a fresh key
\* opens on a full bucket: the checks of cost 1 made inside it and how many of
\* them were admitted (both counted up to WinCap). pure: every check so far
\* was of cost 1 and the clock never went back.
WinCap == 2 * RATE_LIMIT_REQUESTS + 1
NoWin == [open |-> FALSE, pure |-> TRUE, start |-> 0, checks |-> 0,
          admits |-> 0]

WinNext(w, fresh, cost, at, result) ==
    IF ~w.pure THEN w
    ELSE IF cost # 1 \/ skewed \/ (~w.open /\ ~fresh)
    THEN [NoWin EXCEPT !.pure = FALSE]
    ELSE IF ~w.open
    THEN [open |-> TRUE, pure |-> TRUE, start |-> at, checks |-> 1,
          admits |-> IF result = "admitted" THEN 1 ELSE 0]
    ELSE IF at - w.start <= RATE_LIMIT_WINDOW
    THEN [w EXCEPT !.checks = Min(WinCap, w.checks + 1),
                   !.admits = Min(WinCap, w.admits
                                  + IF result = "admitted" THEN 1 ELSE 0)]
    ELSE w

\* What a check that returned, and one that raised, leave in `last`.
Observe(p, k, requests, backend, stored, step) ==
    last' = [result |-> IF step.allowed THEN "admitted" ELSE "rejected",
             proc |-> p, key |-> k, cost |-> requests, at |-> now,
             backend |-> backend, had |-> stored.present,
             tokens0 |-> stored.tokens, t0 |-> stored.last_refill,
             decided |-> step.decided]

ObserveRaise(p, k, requests, backend) ==
    last' = [NoLast EXCEPT !.result = "raised", !.proc = p, !.key = k,
                           !.cost = requests, !.at = now, !.backend = backend]

\* What the check described by `l` adds to the scenario and to the window of
\* its key; a check that raised adds nothing.
Track(l) ==
    IF l.result \in {"admitted", "rejected"}
    THEN /\ scen' = [scen EXCEPT ![l.key] =
                        ScenNext(scen[l.key], ~l.had, l.cost, l.at, l.result)]
         /\ win' = [win EXCEPT ![l.key] =
                       WinNext(win[l.key], ~l.had, l.cost, l.at, l.result)]
    ELSE UNCHANGED <<scen, win>>

(***************************************************************************)
(* RateLimiter (rate_limiter.py)                                           *)
(***************************************************************************)

\* The request in flight: where it stands, its path and client address, what
\* the two admission checks said, the status answered, the retry hint and the
\* error text of the response body, and the upstream calls opened; ip_left:
\* the tokens the admitted ip check left in its bucket (history).
NoRequest == [pc |-> "idle", route |-> "none", host |-> "none", mw |-> "none",
              ep |-> "none", status |-> "none", retry_after |-> 0,
              body |-> "none", calls |-> 0, ip_left |-> 0]
\* gen: where generate_stream stands; upstream: the upstream call ("unopened",
\* "opening", "open", "closed" at its end, "failed", "aborted" by a
\* cancellation); frames: the frames written; pending: the events of the
\* current chunk still to be yielded; n: the chunks received; cut: the number
\* of frames written when the client disconnected; got: the chunks the
\* upstream has delivered, in order (history).
NoSession == [gen |-> "none", upstream |-> "unopened", frames |-> <<>>,
              got |-> <<>>,
              pending |-> <<>>, n |-> 0, client |-> "connected",
              cut |-> 0]

\* RateLimiter.initialize: probe the shared store once.
Initialize(p) ==
    /\ phase[p] = "new"
    /\ phase' = [phase EXCEPT ![p] = "probed"]
    /\ redis_client' = [redis_client EXCEPT ![p] = ProbedClient(redis_up)]
    /\ probe_failed' = [probe_failed EXCEPT ![p] = ~redis_up]
    /\ UNCHANGED <<now, skewed, redis_up, local_buckets, redis_store, last,
                   scen, win>>
    /\ UNCHANGED <<relayvars, sidevars>>

\* The application starts serving requests (main.py lifespan, which leaves the
\* rate limiter as it is).
Lifespan(p) ==
    /\ phase[p] \in {"new", "probed"}
    /\ phase' = [phase EXCEPT ![p] = "serving"]
    /\ UNCHANGED <<now, skewed, redis_up, redis_client, probe_failed,
                   local_buckets, redis_store, last, scen, win>>
    /\ UNCHANGED <<relayvars, sidevars>>

\* LocalBucketsOf gone wrong: one map for the whole fleet.
LocalBucketsOfFleet(p) == "p1"

\* The process whose memory holds the map self.local_buckets of process p's
\* rate_limiter: __init__ creates the map with the instance, and every
\* process has its own instance.
LocalBucketsOf(p) == p

\* BucketName gone wrong: one bucket for all the keys.
BucketNameOne(key) == "user:42"

\* The entry that holds the bucket of a key: self.local_buckets[key] in the
\* map and the hash f"bucket:{key}" in the store, one for each key (the
\* store of the model is indexed by the key itself).
BucketName(key) == key

\* RateLimiter._memory_rate_limit(key, requests)
MemoryRateLimit(p, k, requests) ==
    LET stored == local_buckets[LocalBucketsOf(p)][BucketName(k)]
        step == MemoryStep(stored, now, requests)
    IN  /\ local_buckets' =
               [local_buckets EXCEPT ![LocalBucketsOf(p)][BucketName(k)] =
                                         step.bucket]
        /\ Observe(p, k, requests, "memory", stored, step)
        /\ UNCHANGED <<now, skewed, redis_up, phase, redis_client,
                       probe_failed, redis_store>>

\* RateLimiter._redis_rate_limit(key, requests), run without another check in
\* between: hgetall, the refill, and the pipeline's hset + expire. A store
\* that does not answer makes hgetall (or execute) raise, and nothing in
\* _redis_rate_limit or is_allowed catches it.
RedisRateLimit(p, k, requests) ==
    IF redis_up
    THEN LET stored == redis_store[BucketName(k)]
             step == RedisStep(stored, now, requests)
         IN  /\ redis_store' =
                    [redis_store EXCEPT ![BucketName(k)] = step.bucket]
             /\ Observe(p, k, requests, "redis", stored, step)
             /\ UNCHANGED <<now, skewed, redis_up, phase, redis_client,
                            probe_failed, local_buckets>>
    ELSE /\ ObserveRaise(p, k, requests, "redis")
         /\ UNCHANGED <<now, skewed, redis_up, phase, redis_client,
                        probe_failed, local_buckets, redis_store>>

\* RateLimiter.is_allowed(key, requests)
IsAllowed(p, k, requests) ==
    /\ phase[p] = "serving"
    /\ IF UsesRedis(redis_client[p])
       THEN RedisRateLimit(p, k, requests)
       ELSE MemoryRateLimit(p, k, requests)

\* A caller's admission check outside any request.
Check(p, k, requests) ==
    /\ IsAllowed(p, k, requests)
    /\ Track(last')
    /\ UNCHANGED <<relayvars, sidevars>>

(***************************************************************************)
(* Request-handling tasks of one event loop checking on the local backend  *)
(***************************************************************************)

\* Enough tasks to take more than the capacity.
Tasks == 1..(RATE_LIMIT_REQUESTS + 2)

\* A task: "idle", "called" (it has called is_allowed(key) and is scheduled),
\* "passed" (suspended after the comparison of line 110), "returned". A task
\* checking on the shared backend is "reading" (suspended in `await hgetall`)
\* or "writing" (suspended in `await pipeline.execute()`), and holds the
\* locals of _redis_rate_limit: requests, current_time and bucket_data.
NoTask == [pc |-> "idle", key |-> "none", result |-> "none", requests |-> 0,
           current_time |-> 0, bucket_data |-> NoHash]

\* SuspendsBeforeTake gone wrong: an await between the comparison and the
\* decrement.
SuspendsBeforeTakeAwaits == TRUE

\* A suspended coroutine that another task can overtake: a task of the event
\* loop runs until it awaits something that is not ready, and
\* _memory_rate_limit awaits nothing between reading the bucket and writing
\* it (lines 89 to 114), in particular not between the comparison and the
\* decrement.
SuspendsBeforeTake == FALSE

\* The task runs from where it stands to its next suspension point or to its
\* return: the task and the bucket afterwards.
RunTask(task, stored, current_time) ==
    LET m == MemoryStep(stored, current_time, 1)
    IN  IF task.pc = "passed"
        THEN [task |-> [task EXCEPT !.pc = "returned", !.result = "admitted"],
              bucket |-> [stored EXCEPT !.tokens = @ - Unit]]
        ELSE IF m.allowed /\ SuspendsBeforeTake
        THEN [task |-> [task EXCEPT !.pc = "passed"],
              bucket |-> [m.bucket EXCEPT !.tokens = m.decided]]
        ELSE [task |-> [task EXCEPT !.pc = "returned",
                            !.result = IF m.allowed THEN "admitted"
                                       ELSE "rejected"],
              bucket |-> m.bucket]

\* A request handler calls is_allowed(key) on a process that uses the local
\* backend; the call is made when the event loop runs the task.
TaskCall(t, k) ==
    /\ tasks[t].pc = "idle"
    /\ \E p \in Procs : phase[p] = "serving" /\ ~UsesRedis(redis_client[p])
    /\ tasks' = [tasks EXCEPT ![t] = [NoTask EXCEPT !.pc = "called", !.key = k]]
    /\ UNCHANGED <<rlvars, relayvars, call, auth>>

\* The event loop runs the task.
TaskRun(p, t) ==
    /\ tasks[t].pc \in {"called", "passed"}
    /\ phase[p] = "serving" /\ ~UsesRedis(redis_client[p])
    /\ LET r == RunTask(tasks[t], local_buckets[p][tasks[t].key], now)
       IN  /\ tasks' = [tasks EXCEPT ![t] = r.task]
           /\ local_buckets' =
                  [local_buckets EXCEPT ![p][tasks[t].key] = r.bucket]
    /\ UNCHANGED <<now, skewed, redis_up, phase, redis_client, probe_failed,
                   redis_store, last, scen, win>>
    /\ UNCHANGED <<relayvars, call, auth>>

(***************************************************************************)
(* Tasks checking on the shared backend: _redis_rate_limit in its two      *)
(* round trips to the store                                                *)
(***************************************************************************)

\* Three tasks: two to lose an update and a third to follow them. They are
\* alike, so they are started in the order of their numbers.
RedisTasks == {1, 2, 3}

\* WriteBasis gone wrong: the pipeline's values computed from the hash as it
\* is when the write is made (read and write as one atomic step).
WriteBasisAtWrite(bucket_data, stored) == stored

\* The hash that the values of the pipeline's hset are computed from: the one
\* hgetall returned (lines 53 to 68). Nothing reads the hash again and nothing
\* locks it between the two round trips.
WriteBasis(bucket_data, stored) == bucket_data

\* A request handler calls is_allowed(key, requests) on a process that uses
\* the shared backend: the task reads the clock (line 49) and is suspended in
\* `await self.redis_client.hgetall(...)`.
RedisCall(p, t, k, requests) ==
    /\ tasks[t].pc = "idle"
    /\ \A u \in RedisTasks : u < t => tasks[u].pc # "idle"
    /\ phase[p] = "serving" /\ UsesRedis(redis_client[p])
    /\ tasks' = [tasks EXCEPT ![t] =
                    [NoTask EXCEPT !.pc = "reading", !.key = k,
                                   !.requests = requests,
                                   !.current_time = now]]
    /\ last' = NoLast
    /\ UNCHANGED <<rlkeep, relayvars, call, auth>>

\* The store answers hgetall and the task runs on to line 71: a rejection
\* returns at once; otherwise the task queues hset and expire (which do not
\* suspend it) and is suspended in `await pipeline.execute()`. A store that
\* does not answer makes hgetall raise.
RedisRead(p, t) ==
    /\ tasks[t].pc = "reading"
    /\ LET task == tasks[t]
           stored == redis_store[task.key]
           step == RedisStep(stored, task.current_time, task.requests)
       IN  IF ~redis_up
           THEN /\ tasks' = [tasks EXCEPT ![t].pc = "returned",
                                          ![t].result = "raised"]
                /\ last' = [NoLast EXCEPT
                               !.result = "raised", !.proc = p,
                               !.key = task.key, !.cost = task.requests,
                               !.at = task.current_time, !.backend = "redis"]
           ELSE IF step.allowed
           THEN /\ tasks' = [tasks EXCEPT ![t].pc = "writing",
                                          ![t].bucket_data = stored]
                /\ last' = NoLast
           ELSE /\ tasks' = [tasks EXCEPT ![t].pc = "returned",
                                          ![t].result = "rejected",
                                          ![t].bucket_data = stored]
                /\ last' = [result |-> "rejected", proc |-> p,
                            key |-> task.key, cost |-> task.requests,
                            at |-> task.current_time, backend |-> "redis",
                            had |-> stored.present, tokens0 |-> stored.tokens,
                            t0 |-> stored.last_refill,
                            decided |-> step.decided]
    /\ UNCHANGED <<rlkeep, relayvars, call, auth>>

\* The store executes the pipeline (hset and expire, as one transaction) and
\* the task returns True. A store that does not answer makes execute raise.
RedisWrite(p, t) ==
    /\ tasks[t].pc = "writing"
    /\ LET task == tasks[t]
           basis == WriteBasis(task.bucket_data, redis_store[task.key])
           step == RedisStep(basis, task.current_time, task.requests)
       IN  IF ~redis_up
           THEN /\ tasks' = [tasks EXCEPT ![t].pc = "returned",
                                          ![t].result = "raised"]
                /\ last' = [NoLast EXCEPT
                               !.result = "raised", !.proc = p,
                               !.key = task.key, !.cost = task.requests,
                               !.at = task.current_time, !.backend = "redis"]
                /\ UNCHANGED redis_store
           ELSE /\ tasks' = [tasks EXCEPT ![t].pc = "returned",
                                          ![t].result = "admitted"]
                /\ redis_store' =
                       [redis_store EXCEPT ![task.key] = step.bucket]
                /\ last' = [result |-> "admitted", proc |-> p,
                            key |-> task.key, cost |-> task.requests,
                            at |-> task.current_time, backend |-> "redis",
                            had |-> task.bucket_data.present,
                            tokens0 |-> task.bucket_data.tokens,
                            t0 |-> task.bucket_data.last_refill,
                            decided |-> RedisStep(task.bucket_data,
                                                  task.current_time,
                                                  task.requests).decided]
    /\ UNCHANGED <<now, skewed, redis_up, phase, redis_client, probe_failed,
                   local_buckets, scen, win>>
    /\ UNCHANGED <<relayvars, call, auth>>

(***************************************************************************)
(* The parameters of the upstream call (perplexityai_service.py)           *)
(***************************************************************************)

\* A request parameter: set by the caller or not (None), and its value.
\* Numbers are in tenths (7 is 0.7); ChatRequest admits temperature and top_p
\* from 0, penalties from -2, max_tokens above 0.
Unset(val) == [set |-> FALSE, val |-> val]
Given(val) == [set |-> TRUE, val |-> val]
ParamNames == {"model", "temperature", "max_tokens", "top_p",
               "frequency_penalty", "presence_penalty"}
Numbers(vals) == {Unset(0)} \cup {Given(v) : v \in vals}
Requests ==
    [model : {Unset(""), Given("sonar-small-chat")},
     temperature : Numbers({0, 7, 12}),
     max_tokens : Numbers({256}),
     top_p : Numbers({0, 5}),
     frequency_penalty : Numbers({0, -10}),
     presence_penalty : Numbers({0, 10})]

\* self.default_model (settings.DEFAULT_MODEL), 0.7, self.max_tokens
\* (settings.MAX_TOKENS), 1.0, 0.0, 0.0
Defaults ==
    [model |-> "gpt-4o-mini", temperature |-> 7, max_tokens |-> 4096,
     top_p |-> 10, frequency_penalty |-> 0, presence_penalty |-> 0]

\* Python's truth value of a parameter that is set: the empty string and the
\* number 0 are false.
Falsy(name, val) == IF name = "model" THEN val = "" ELSE val = 0

\* Python's `x or default`: the default for None and for every falsy value.
OrDefault(name, param, default) ==
    IF param.set /\ ~Falsy(name, param.val) THEN param.val ELSE default

\* The keyword arguments of self.client.chat.completions.create(...), the same
\* in create_chat_completion and create_chat_completion_stream.
CreateArgs(request) ==
    [name \in ParamNames |-> OrDefault(name, request[name], Defaults[name])]

NoCall == [made |-> FALSE, stream |-> FALSE,
           request |-> [name \in ParamNames |->
                           IF name = "model" THEN Unset("") ELSE Unset(0)],
           sent |-> Defaults]

\* create_chat_completion(request) / create_chat_completion_stream(request)
\* open the upstream call.
CreateChatCompletion(request, stream) ==
    /\ call' = [made |-> TRUE, stream |-> stream, request |-> request,
                sent |-> CreateArgs(request)]
    /\ UNCHANGED <<rlvars, relayvars, tasks, auth>>

(***************************************************************************)
(* Users and login (auth_service.py, endpoints/auth.py)                    *)
(***************************************************************************)

Usernames == {"alice", "bob"}
Emails == {"a@example.org", "b@example.org"}
Passwords == {"secret1", "secret2"}

\* A row of the users table; hashed_password is written as the password it
\* was hashed from.
NoUser == [present |-> FALSE, email |-> "none", hashed_password |-> "none",
           is_active |-> FALSE]

\* The answer of an auth endpoint: the operation, its status and the access
\* token of a login; users: the table; before: the table when the operation
\* began (history).
NoAnswer == [op |-> "none", status |-> "none", token |-> "none",
             username |-> "none", password |-> "none"]
NoAuth == [users |-> [u \in Usernames |-> NoUser],
           before |-> [u \in Usernames |-> NoUser],
           answer |-> NoAnswer]

\* verify_password (app.core.security): the password is the one that was
\* hashed.
VerifyPassword(password, hashed_password) == password = hashed_password

\* create_access_token (app.core.security) for data = {"sub": user["id"]}.
CreateAccessToken(username) == IF username = "alice" THEN "token:alice"
                               ELSE "token:bob"

\* AuthenticateUser gone wrong: the is_active test left out.
AuthenticateUserAnyState(users, username, password) ==
    /\ users[username].present
    /\ VerifyPassword(password, users[username].hashed_password)

\* AuthService.authenticate_user: whether it returns the user (not None).
AuthenticateUser(users, username, password) ==
    IF ~users[username].present THEN FALSE
    ELSE IF ~VerifyPassword(password, users[username].hashed_password)
    THEN FALSE
    ELSE IF ~users[username].is_active THEN FALSE
    ELSE TRUE

\* login: 401 when authenticate_user returns None, else the token; 500
\* "Login failed" when the database raises.
Login(username, password, db_ok) ==
    /\ auth' = [auth EXCEPT
           !.before = auth.users,
           !.answer =
               IF ~db_ok
               THEN [op |-> "login", status |-> "500", token |-> "none",
                     username |-> username, password |-> password]
               ELSE IF AuthenticateUser(auth.users, username, password)
               THEN [op |-> "login", status |-> "200",
                     token |-> CreateAccessToken(username),
                     username |-> username, password |-> password]
               ELSE [op |-> "login", status |-> "401", token |-> "none",
                     username |-> username, password |-> password]]
    /\ UNCHANGED <<rlvars, relayvars, tasks, call>>

\* register: 400 for a username that exists; create_user inserts the row,
\* active; the INSERT fails on an email that exists (UNIQUE), which the
\* endpoint answers with 500.
Register(username, email, password) ==
    /\ LET taken == \E u \in Usernames :
                        auth.users[u].present /\ auth.users[u].email = email
           status == IF auth.users[username].present THEN "400"
                     ELSE IF taken THEN "500" ELSE "200"
       IN  auth' = [auth EXCEPT
               !.before = auth.users,
               !.users = IF status = "200"
                         THEN [auth.users EXCEPT ![username] =
                                  [present |-> TRUE, email |-> email,
                                   hashed_password |-> password,
                                   is_active |-> TRUE]]
                         ELSE auth.users,
               !.answer = [op |-> "register", status |-> status,
                           token |-> "none", username |-> username,
                           password |-> password]]
    /\ UNCHANGED <<rlvars, relayvars, tasks, call>>

\* The is_active column of a user is cleared in the database.
Deactivate(username) ==
    /\ auth.users[username].present /\ auth.users[username].is_active
    /\ auth' = [auth EXCEPT !.before = auth.users,
                            !.users[username].is_active = FALSE,
                            !.answer = NoAnswer]
    /\ UNCHANGED <<rlvars, relayvars, tasks, call>>

(***************************************************************************)
(* The environment: the clock and the shared store. `last` describes the   *)
(* check that has just ended, so a step of the environment clears it.      *)
(***************************************************************************)

\* A hash whose time-to-live ran out is deleted by the store.
Aged(h, d) ==
    IF h.present /\ h.ttl > d THEN [h EXCEPT !.ttl = h.ttl - d] ELSE NoHash

\* d ticks pass: time.time() grows by d and every ttl in the store shrinks.
Tick(d) ==
    /\ now + d <= MaxTime
    /\ now' = now + d
    /\ redis_store' = [k \in Keys |-> Aged(redis_store[k], d)]
    /\ last' = NoLast
    /\ UNCHANGED <<skewed, redis_up, phase, redis_client, probe_failed,
                   local_buckets, scen, win>>
    /\ UNCHANGED <<relayvars, sidevars>>

\* The system clock is set back: time.time() "can return a lower value than a
\* previous call if the system clock has been set back between the two calls".
ClockStepBack(t) ==
    /\ ~skewed
    /\ t < now
    /\ now' = t
    /\ skewed' = TRUE
    /\ last' = NoLast
    /\ UNCHANGED <<redis_up, phase, redis_client, probe_failed, local_buckets,
                   redis_store, scen, win>>
    /\ UNCHANGED <<relayvars, sidevars>>

\* The shared store stops answering, and answers again. A streaming session
\* never reads the store, so the change is taken before or after it.
RedisDown ==
    /\ redis_up
    /\ req.pc # "streaming"
    /\ redis_up' = FALSE
    /\ last' = NoLast
    /\ UNCHANGED <<now, skewed, phase, redis_client, probe_failed,
                   local_buckets, redis_store, scen, win>>
    /\ UNCHANGED <<relayvars, sidevars>>

RedisUp ==
    /\ ~redis_up
    /\ req.pc # "streaming"
    /\ redis_up' = TRUE
    /\ last' = NoLast
    /\ UNCHANGED <<now, skewed, phase, redis_client, probe_failed,
                   local_buckets, redis_store, scen, win>>
    /\ UNCHANGED <<relayvars, sidevars>>

(***************************************************************************)
(* The rate limiter of one process, checked on one key                     *)
(***************************************************************************)

KeysRL == {"user:42"}

Init ==
    /\ now = 0
    /\ skewed = FALSE
    /\ redis_up \in BOOLEAN
    /\ phase = [p \in Fleet |-> "new"]
    /\ redis_client = [p \in Fleet |-> "None"]
    /\ probe_failed = [p \in Fleet |-> FALSE]
    /\ local_buckets = [p \in Fleet |-> [k \in Keys |-> NoBucket]]
    /\ redis_store = [k \in Keys |-> NoHash]
    /\ last = NoLast
    /\ scen = [k \in Keys |-> NoScen]
    /\ win = [k \in Keys |-> NoWin]
    /\ req = NoRequest
    /\ sess = NoSession
    /\ tasks = [t \in Tasks |-> NoTask]
    /\ call = NoCall
    /\ auth = NoAuth

Next ==
    \/ \E p \in Procs : Initialize(p)
    \/ \E p \in Procs : Lifespan(p)
    \/ \E p \in Procs, k \in KeysRL, c \in 1..MaxCost : Check(p, k, c)
    \/ \E d \in 1..MaxTime : Tick(d)
    \/ \E t \in 0..MaxTime : ClockStepBack(t)
    \/ RedisDown
    \/ RedisUp

Spec == Init /\ [][Next]_vars

(***************************************************************************)
(* The request path: RateLimitMiddleware, the chat endpoints and the       *)
(* streaming relay. One request is handled at a time.                      *)
(***************************************************************************)

\* A step that makes no admission check: the rate limiter stays as it is, and
\* `last`, which describes the check that has just ended, is cleared.
Quiet == last' = NoLast /\ UNCHANGED <<rlkeep, sidevars>>

MaxChunks == 3

\* The partition keys: client_key = f"ip:{client_ip}" in the middleware,
\* user_key = f"user:{current_user['user_id']}" in the chat endpoints. The
\* one user of the model connects from two addresses.
Hosts == {"10.0.0.1", "10.0.0.2"}
IpKey(host) == IF host = "10.0.0.1" THEN "ip:10.0.0.1" ELSE "ip:10.0.0.2"
UserKey == "user:42"
HealthPath == "/api/v1/health"
CompletionsPath == "/api/v1/chat/completions"
StreamPath == "/api/v1/chat/completions/stream"
HealthDetailedPath == "/api/v1/health/detailed"
AuthLoginPath == "/api/v1/auth/login"
AuthRefreshPath == "/api/v1/auth/refresh"
Paths == {HealthPath, HealthDetailedPath, CompletionsPath, StreamPath,
          AuthLoginPath, AuthRefreshPath}

\* SkipsRateLimit gone wrong: every path is let through.
SkipsRateLimitAll(path) == TRUE

\* The paths RateLimitMiddleware.__call__ lets through without a check.
SkipsRateLimit(path) ==
    path \in {"/api/v1/health", "/api/v1/auth/login", "/api/v1/auth/register"}

\* An upstream chunk: whether it has choices, and its first choice's
\* delta.content (None, the empty string, or text) and finish_reason.
Chunks ==
    {[choices |-> FALSE, content |-> "None", finish |-> "None"]}
    \cup [choices : {TRUE}, content : {"None", "", "text"},
          finish : {"None", "stop"}]

\* The outbound frames: `data: <json of an event>`, `data: [DONE]`, and the
\* error event of generate_stream.
ContentFrame(chunk) ==
    [kind |-> "content", content |-> chunk.content, finish |-> chunk.finish,
     message |-> "", type |-> ""]
FinishFrame(chunk) ==
    [kind |-> "finish", content |-> "None", finish |-> chunk.finish,
     message |-> "", type |-> ""]
DoneFrame ==
    [kind |-> "done", content |-> "None", finish |-> "None",
     message |-> "", type |-> ""]
ErrorFrame ==
    [kind |-> "error", content |-> "None", finish |-> "None",
     message |-> "Stream error occurred", type |-> "server_error"]

\* ChunkEvents gone wrong: the finish event is yielded only for a chunk that
\* also has content (the second `if` nested in the first).
ChunkEventsNested(chunk) ==
    IF chunk.choices /\ chunk.content # "None"
    THEN <<ContentFrame(chunk)>>
         \o (IF chunk.finish # "None" THEN <<FinishFrame(chunk)>> ELSE <<>>)
    ELSE <<>>

\* create_chat_completion_stream, the body of its `async for`: the events one
\* upstream chunk makes it yield, in order.
ChunkEvents(chunk) ==
    (IF chunk.choices /\ chunk.content # "None"
     THEN <<ContentFrame(chunk)>> ELSE <<>>)
    \o (IF chunk.choices /\ chunk.finish # "None"
        THEN <<FinishFrame(chunk)>> ELSE <<>>)

\* Exception classes: an upstream failure is an Exception (openai.APIError and
\* the like); a cancelled task gets asyncio.CancelledError and a closed
\* generator GeneratorExit, which are BaseExceptions only.
IsException(exc) == exc \in {"Exception", "APIError"}

\* create_chat_completion_stream's `except Exception as e: raise
\* Exception(...)`: what leaves the service for an exception raised inside.
ServiceRaises(exc) == IF IsException(exc) THEN "Exception" ELSE exc

\* Catches gone wrong: generate_stream with no handler.
CatchesNothing(exc) == FALSE

\* generate_stream's `except Exception as e`.
Catches(exc) == IsException(exc)

\* generate_stream when `exc` is raised inside its try block: the handler
\* yields the one error event; an exception it does not catch leaves the
\* generator ("raised": an Exception reaches the transport, "gone": the
\* generator was cancelled or closed).
GenRaise(s, exc) ==
    IF Catches(ServiceRaises(exc))
    THEN [s EXCEPT !.gen = "sent_error", !.pending = <<>>,
                   !.frames = Append(s.frames, ErrorFrame)]
    ELSE [s EXCEPT !.gen = IF IsException(exc) THEN "raised" ELSE "gone",
                   !.pending = <<>>]

\* AfterYield gone wrong: [DONE] is written in a finally clause, so also
\* after the error event.
AfterYieldDoneInFinally(s) ==
    IF s.gen = "yielded" /\ s.pending # <<>>
    THEN [s EXCEPT !.frames = Append(s.frames, Head(s.pending)),
                   !.pending = Tail(s.pending)]
    ELSE IF s.gen = "yielded" THEN [s EXCEPT !.gen = "awaiting"]
    ELSE IF s.gen = "sent_error"
    THEN [s EXCEPT !.gen = "sent_done", !.frames = Append(s.frames, DoneFrame)]
    ELSE [s EXCEPT !.gen = "ended"]

\* generate_stream resumed after the frame it yielded was sent: the next
\* event of the same chunk, or back to awaiting the upstream; after [DONE] and
\* after the error event the generator returns.
AfterYield(s) ==
    IF s.gen = "yielded" /\ s.pending # <<>>
    THEN [s EXCEPT !.frames = Append(s.frames, Head(s.pending)),
                   !.pending = Tail(s.pending)]
    ELSE IF s.gen = "yielded" THEN [s EXCEPT !.gen = "awaiting"]
    ELSE [s EXCEPT !.gen = "ended"]

\* AfterUserCheck gone wrong: the endpoint goes on whatever is_allowed said.
AfterUserCheckIgnored(result, path) ==
    IF result = "raised"
    THEN [pc |-> "done", status |-> "500"]
    ELSE IF path = StreamPath
    THEN [pc |-> "streaming", status |-> "200"]
    ELSE [pc |-> "upstream", status |-> "none"]

\* chat_completions and chat_completions_stream after `await
\* rate_limiter.is_allowed(user_key)`: a rejection raises the 429
\* HTTPException, which `except HTTPException: raise` passes on; an exception
\* out of is_allowed is turned into the 500 by `except Exception`; otherwise
\* the non-streaming endpoint calls the upstream and the streaming endpoint
\* returns the StreamingResponse over generate_stream().
AfterUserCheck(result, path) ==
    IF result = "rejected" THEN [pc |-> "done", status |-> "429"]
    ELSE IF result = "raised" THEN [pc |-> "done", status |-> "500"]
    ELSE IF path = StreamPath
    THEN [pc |-> "streaming", status |-> "200"]
    ELSE [pc |-> "upstream", status |-> "none"]

\* A request arrives.
NewRequest(path, host) ==
    /\ req.pc = "idle"
    /\ \E p \in Procs : phase[p] = "serving"
    /\ req' = [NoRequest EXCEPT !.pc = "middleware", !.route = path,
                                !.host = host]
    /\ sess' = NoSession
    /\ Quiet

\* RateLimitMiddleware.__call__: the exempt paths go straight to the
\* application; the others pass the ip check first. A rejection is answered
\* with the 429 JSONResponse (retry_after 60); an exception out of is_allowed
\* is not caught here.
Middleware(p) ==
    /\ req.pc = "middleware"
    /\ IF SkipsRateLimit(req.route)
       THEN /\ req' = [req EXCEPT !.pc = "endpoint"]
            /\ Quiet
            /\ UNCHANGED sess
       ELSE /\ IsAllowed(p, IpKey(req.host), 1)
            /\ UNCHANGED <<scen, win, sidevars>>
            /\ req' = [req EXCEPT
                   !.mw = last'.result,
                   !.pc = IF last'.result = "admitted" THEN "endpoint"
                          ELSE "done",
                   !.status = IF last'.result = "admitted" THEN "none"
                              ELSE IF last'.result = "rejected" THEN "429"
                              ELSE "exception",
                   !.retry_after = IF last'.result = "rejected" THEN 60
                                   ELSE 0,
                   !.ip_left = IF last'.result = "admitted"
                               THEN last'.decided - Unit ELSE 0]
            /\ UNCHANGED sess

\* get_current_user (app.core.security) refuses the credential: 401.
Unauthenticated ==
    /\ req.pc = "endpoint"
    /\ req.route \in {CompletionsPath, StreamPath}
    /\ req' = [req EXCEPT !.pc = "done", !.status = "401"]
    /\ Quiet
    /\ UNCHANGED sess

\* The endpoint body up to its first await on the upstream: health_check
\* answers at once; the chat endpoints make the user check and go on as
\* AfterUserCheck says. The non-streaming endpoint's upstream call is opened
\* here; the streaming one only creates the generator.
Endpoint(p) ==
    /\ req.pc = "endpoint"
    /\ req.route \in {HealthPath, CompletionsPath, StreamPath}
    /\ IF req.route = HealthPath
       THEN /\ req' = [req EXCEPT !.pc = "done", !.status = "200"]
            /\ Quiet
            /\ UNCHANGED sess
       ELSE /\ IsAllowed(p, UserKey, 1)
            /\ UNCHANGED <<scen, win, sidevars>>
            /\ LET after == AfterUserCheck(last'.result, req.route)
               IN  /\ req' = [req EXCEPT
                          !.ep = last'.result,
                          !.pc = after.pc,
                          !.status = after.status,
                          !.calls = IF after.pc = "upstream" THEN 1 ELSE 0]
                   /\ sess' = IF after.pc = "streaming"
                              THEN [NoSession EXCEPT !.gen = "created"]
                              ELSE sess

\* chat_completions: create_chat_completion returns the response.
UpstreamReturns ==
    /\ req.pc = "upstream"
    /\ req' = [req EXCEPT !.pc = "done", !.status = "200"]
    /\ Quiet
    /\ UNCHANGED sess

\* The texts of upstream failures (str(e) of the provider's exception).
ErrorTexts == {"Incorrect API key provided: sk-live", "upstream timed out"}

\* The detail of the 500 that chat_completions answers when the upstream call
\* raised an exception of text `text`: the text is logged, not answered.
ServerErrorDetail(text) == "Internal server error"

\* chat_completions: create_chat_completion raises; `except Exception` turns
\* it into the 500 "Internal server error".
UpstreamRaises(text) ==
    /\ req.pc = "upstream"
    /\ req' = [req EXCEPT !.pc = "done", !.status = "500",
                          !.body = ServerErrorDetail(text)]
    /\ Quiet
    /\ UNCHANGED sess

\* OpenAIService.health_check: the "error" entry of what it returns when
\* models.list() succeeded or raised an exception of text `text`.
HealthCheckError(ok, text) == IF ok THEN "none" ELSE text

\* detailed_health_check: the status of the upstream, as health_check
\* returned it, is part of the 200 response.
DetailedHealth(ok, text) ==
    /\ req.pc = "endpoint"
    /\ req.route = HealthDetailedPath
    /\ req' = [req EXCEPT !.pc = "done", !.status = "200",
                          !.body = HealthCheckError(ok, text)]
    /\ Quiet
    /\ UNCHANGED sess

\* What login and refresh_token answer: the token (200), a refused credential
\* (401), or the 500 of their `except Exception`.
AuthStatuses == {"200", "401", "500"}

\* The auth endpoints login and refresh_token answer; neither makes an
\* admission check.
AuthAnswers(status) ==
    /\ req.pc = "endpoint"
    /\ req.route \in {AuthLoginPath, AuthRefreshPath}
    /\ req' = [req EXCEPT !.pc = "done", !.status = status]
    /\ Quiet
    /\ UNCHANGED sess

\* The response starts iterating generate_stream: it enters its try block and
\* create_chat_completion_stream awaits the upstream call being opened.
GenStart ==
    /\ req.pc = "streaming" /\ sess.gen = "created"
    /\ sess' = [sess EXCEPT !.gen = "opening", !.upstream = "opening"]
    /\ req' = [req EXCEPT !.calls = req.calls + 1]
    /\ Quiet

\* The upstream call is open: the service awaits the first chunk.
UpstreamOpened ==
    /\ sess.gen = "opening"
    /\ sess' = [sess EXCEPT !.gen = "awaiting", !.upstream = "open"]
    /\ Quiet
    /\ UNCHANGED req

\* Opening the upstream call fails.
UpstreamOpenFails ==
    /\ sess.gen = "opening"
    /\ sess' = GenRaise([sess EXCEPT !.upstream = "failed"], "APIError")
    /\ Quiet
    /\ UNCHANGED req

\* The upstream delivers a chunk: the first event it gives rise to is yielded
\* and written; a chunk that gives none leaves the generator awaiting.
UpstreamChunk(chunk) ==
    /\ sess.gen = "awaiting" /\ sess.upstream = "open"
    /\ sess.n < MaxChunks
    /\ LET events == ChunkEvents(chunk)
       IN  sess' = IF events = <<>>
                   THEN [sess EXCEPT !.n = sess.n + 1,
                                     !.got = Append(sess.got, chunk)]
                   ELSE [sess EXCEPT !.n = sess.n + 1, !.gen = "yielded",
                                     !.got = Append(sess.got, chunk),
                                     !.frames = Append(sess.frames, Head(events)),
                                     !.pending = Tail(events)]
    /\ Quiet
    /\ UNCHANGED req

\* The upstream stream ends: the service generator returns and generate_stream
\* yields `data: [DONE]`.
UpstreamEnd ==
    /\ sess.gen = "awaiting" /\ sess.upstream = "open"
    /\ sess' = [sess EXCEPT !.gen = "sent_done", !.upstream = "closed",
                            !.frames = Append(sess.frames, DoneFrame)]
    /\ Quiet
    /\ UNCHANGED req

\* The upstream fails between chunks.
UpstreamFails ==
    /\ sess.gen = "awaiting" /\ sess.upstream = "open"
    /\ sess' = GenRaise([sess EXCEPT !.upstream = "failed"], "APIError")
    /\ Quiet
    /\ UNCHANGED req

\* The frame was sent and the generator is resumed.
Resume ==
    /\ sess.gen \in {"yielded", "sent_done", "sent_error"}
    /\ sess' = AfterYield(sess)
    /\ Quiet
    /\ UNCHANGED req

\* The client disconnects and the task sending the response is cancelled. A
\* generator awaiting the upstream gets CancelledError inside that await, which
\* aborts the upstream call and then passes through generate_stream as
\* GenRaise says. A generator suspended at a yield (its frame being sent) gets
\* nothing: it is left as it is, with the upstream stream it holds. No line of
\* generate_stream or of the service closes the upstream stream.
ClientDisconnect ==
    /\ req.pc = "streaming"
    /\ sess.client = "connected"
    /\ sess.gen \in {"created", "opening", "awaiting", "yielded", "sent_done",
                     "sent_error"}
    /\ LET cutoff == [sess EXCEPT !.client = "disconnected",
                                  !.cut = Len(sess.frames)]
       IN  sess' =
             IF sess.gen = "created" THEN [cutoff EXCEPT !.gen = "gone"]
             ELSE IF sess.gen \in {"opening", "awaiting"}
             THEN GenRaise([cutoff EXCEPT !.upstream = "aborted"],
                           "CancelledError")
             ELSE [cutoff EXCEPT !.gen = "abandoned"]
    /\ Quiet
    /\ UNCHANGED req

\* The abandoned generator is finalized by the event loop's asyncgen hook when
\* it is garbage collected: GeneratorExit is raised at its yield and passes
\* through generate_stream as GenRaise says. Whether the upstream stream it
\* drops gets closed is up to the client library's own finalization: either.
Finalize ==
    /\ sess.gen = "abandoned"
    /\ \E closes \in BOOLEAN :
          sess' = GenRaise(
                      [sess EXCEPT !.upstream =
                           IF closes /\ sess.upstream = "open" THEN "aborted"
                           ELSE sess.upstream],
                      "GeneratorExit")
    /\ Quiet
    /\ UNCHANGED req

\* The generator returned, was cancelled or closed, or raised.
SessionOver == sess.gen \in {"ended", "gone", "raised"}

\* The request is over.
Complete ==
    /\ \/ req.pc = "done"
       \/ req.pc = "streaming" /\ SessionOver
    /\ req' = NoRequest
    /\ sess' = NoSession
    /\ Quiet

\* The chunks of the sessions that SpecRelay runs behind the admission
\* checks: one without choices, one of content, one of a finish reason.
\* SpecStream runs the sessions on every kind of chunk.
RelayChunks ==
    {chunk \in Chunks :
        \/ ~chunk.choices
        \/ chunk.content = "text" /\ chunk.finish = "None"
        \/ chunk.content = "None" /\ chunk.finish = "stop"}

InitRelay == Init

NextRelay ==
    \/ \E p \in Procs : Initialize(p)
    \/ \E p \in Procs : Lifespan(p)
    \/ \E path \in Paths, host \in Hosts : NewRequest(path, host)
    \/ \E p \in Procs : Middleware(p)
    \/ Unauthenticated
    \/ \E p \in Procs : Endpoint(p)
    \/ UpstreamReturns
    \/ \E text \in ErrorTexts : UpstreamRaises(text)
    \/ \E ok \in BOOLEAN, text \in ErrorTexts : DetailedHealth(ok, text)
    \/ \E status \in AuthStatuses : AuthAnswers(status)
    \/ GenStart
    \/ UpstreamOpened
    \/ UpstreamOpenFails
    \/ \E chunk \in RelayChunks : UpstreamChunk(chunk)
    \/ UpstreamEnd
    \/ UpstreamFails
    \/ Resume
    \/ ClientDisconnect
    \/ Finalize
    \/ Complete
    \/ RedisDown
    \/ RedisUp

SpecRelay == InitRelay /\ [][NextRelay]_vars

(***************************************************************************)
(* Concurrent checks of the tasks of one process, while no time passes     *)
(***************************************************************************)

InitTasks == Init

NextTasks ==
    \/ \E p \in Procs : Initialize(p)
    \/ \E p \in Procs : Lifespan(p)
    \/ \E t \in Tasks, k \in KeysRL \cup {"ip:10.0.0.1"} : TaskCall(t, k)
    \/ \E p \in Procs, t \in Tasks : TaskRun(p, t)

SpecTasks == InitTasks /\ [][NextTasks]_vars

(***************************************************************************)
(* Concurrent checks on one key of the shared store, while time passes     *)
(***************************************************************************)

InitShared == Init

\* The checks are of cost 1, the `requests` of every call of is_allowed in the
\* application.
NextShared ==
    \/ \E p \in Procs : Initialize(p)
    \/ \E p \in Procs : Lifespan(p)
    \/ \E p \in Procs, t \in RedisTasks, k \in KeysRL : RedisCall(p, t, k, 1)
    \/ \E p \in Procs, t \in RedisTasks : RedisRead(p, t)
    \/ \E p \in Procs, t \in RedisTasks : RedisWrite(p, t)
    \/ \E d \in 1..MaxTime : Tick(d)
    \/ RedisDown
    \/ RedisUp

SpecShared == InitShared /\ [][NextShared]_vars

(***************************************************************************)
(* A fleet of processes checking one key, while no time passes             *)
(***************************************************************************)

InitFleet == Init

NextFleet ==
    \/ \E p \in Fleet : Initialize(p)
    \/ \E p \in Fleet : Lifespan(p)
    \/ \E p \in Fleet, k \in KeysRL : Check(p, k, 1)
    \/ RedisDown
    \/ RedisUp

SpecFleet == InitFleet /\ [][NextFleet]_vars

(***************************************************************************)
(* Two processes, one on each backend, given the same checks one at a time *)
(***************************************************************************)

\* The same call is_allowed(key, requests) made at the same clock value on a
\* process that uses the shared store and on one that uses its local map:
\* _redis_rate_limit on the one, _memory_rate_limit on the other. `last`
\* describes the check on the shared store.
CheckBoth(shared, local, k, requests) ==
    /\ phase[shared] = "serving" /\ UsesRedis(redis_client[shared]) /\ redis_up
    /\ phase[local] = "serving" /\ ~UsesRedis(redis_client[local])
    /\ LET stored == redis_store[BucketName(k)]
           r == RedisStep(stored, now, requests)
           m == MemoryStep(local_buckets[local][BucketName(k)], now, requests)
       IN  /\ redis_store' = [redis_store EXCEPT ![BucketName(k)] = r.bucket]
           /\ local_buckets' =
                  [local_buckets EXCEPT ![local][BucketName(k)] = m.bucket]
           /\ Observe(shared, k, requests, "redis", stored, r)
    /\ UNCHANGED <<now, skewed, redis_up, phase, redis_client, probe_failed,
                   scen, win>>
    /\ UNCHANGED <<relayvars, sidevars>>

InitBoth == Init

NextBoth ==
    \/ Initialize("p1")
    \/ \E p \in Fleet : Lifespan(p)
    \/ \E k \in KeysRL, c \in 1..MaxCost : CheckBoth("p1", "p2", k, c)
    \/ \E d \in 1..MaxTime : Tick(d)

SpecBoth == InitBoth /\ [][NextBoth]_vars

(***************************************************************************)
(* Upstream calls on every request of Requests                             *)
(***************************************************************************)

InitParams == Init

NextParams ==
    \E request \in Requests, stream \in BOOLEAN :
        CreateChatCompletion(request, stream)

SpecParams == InitParams /\ [][NextParams]_vars

(***************************************************************************)
(* Registrations and logins                                                *)
(***************************************************************************)

InitAuth == Init

NextAuth ==
    \/ \E u \in Usernames, pw \in Passwords, db_ok \in BOOLEAN :
          Login(u, pw, db_ok)
    \/ \E u \in Usernames, e \in Emails, pw \in Passwords : Register(u, e, pw)
    \/ \E u \in Usernames : Deactivate(u)

SpecAuth == InitAuth /\ [][NextAuth]_vars

(***************************************************************************)
(* One streaming session after another, on upstream chunks of two texts    *)
(***************************************************************************)

\* The chunks of Chunks, and the same with a second text.
MoreChunks ==
    Chunks \cup [choices : {TRUE}, content : {"more"}, finish : {"None", "stop"}]

InitStream == Init

NextStream ==
    \/ \E p \in Procs : Lifespan(p)
    \/ NewRequest(StreamPath, "10.0.0.1")
    \/ \E p \in Procs : Middleware(p)
    \/ \E p \in Procs : Endpoint(p)
    \/ GenStart
    \/ UpstreamOpened
    \/ UpstreamOpenFails
    \/ \E chunk \in MoreChunks : UpstreamChunk(chunk)
    \/ UpstreamEnd
    \/ UpstreamFails
    \/ Resume
    \/ ClientDisconnect
    \/ Finalize
    \/ Complete

SpecStream == InitStream /\ [][NextStream]_vars

(***************************************************************************)
(* Claims on the rate limiter                                              *)
(***************************************************************************)

Returned == last.result \in {"admitted", "rejected"}
InRange(tokens) == 0 <= tokens /\ tokens <= Capacity

\* C1: on either backend the token count is never negative and never above
\* the capacity, in every stored bucket and in the value a check decides on.
\* The code breaks it when time.time() goes back.
C1_TokensWithinCapacity ==
    /\ \A p \in Procs, k \in Keys :
          local_buckets[p][k].present => InRange(local_buckets[p][k].tokens)
    /\ \A k \in Keys : redis_store[k].present => InRange(redis_store[k].tokens)
    /\ Returned => InRange(last.decided)

\* The same bounds while the clock has never gone back: they hold.
TokensWithinCapacityMonotone == ~skewed => C1_TokensWithinCapacity

\* C7: on a fresh key, N checks of cost 1 in rapid succession are admitted,
\* check N + 1 is rejected, and a check made a window later is admitted.
C7_QuotaScenario ==
    \A k \in Keys :
        ~scen[k].off =>
            \A i \in 1..Len(scen[k].res) :
                scen[k].res[i] = IF i = RATE_LIMIT_REQUESTS + 1
                                 THEN "rejected" ELSE "admitted"

\* C7 witness: the whole scenario has run on the shared backend, check N + 1
\* having come a tick after the first.
C7_ScenarioCompleted ==
    \E k \in Keys :
        /\ ~scen[k].off
        /\ scen[k].n = RATE_LIMIT_REQUESTS + 2
        /\ scen[k].lastAt > scen[k].start
        /\ last.backend = "redis"

C9_RefillLaw ==
    Returned /\ last.had /\ last.at >= last.t0 =>
        /\ last.decided =
               Min(Capacity, last.tokens0
                             + (last.at - last.t0) * RATE_LIMIT_REQUESTS)
        /\ (last.at - last.t0 >= RATE_LIMIT_WINDOW => last.decided = Capacity)

\* The refill law while the clock has never gone back: it holds.
RefillLawMonotone == ~skewed => C9_RefillLaw

\* C10: once the probe of initialize() has failed, the process holds no
\* client, and every check it makes is decided on the local backend and
\* returns a boolean.
C10_DegradedStaysLocal ==
    \A p \in Procs :
        probe_failed[p] =>
            /\ redis_client[p] = "None"
            /\ (last.result # "none" /\ last.proc = p =>
                   last.backend = "memory" /\ Returned)

\* C10 witness: the probe failed, the store answers again, and a check has
\* just been admitted on the local backend.
C10_LocalWhileStoreIsBack ==
    \E p \in Procs :
        /\ probe_failed[p] /\ redis_up
        /\ last.proc = p /\ last.result = "admitted" /\ last.backend = "memory"

\* C11 as claimed: the local backend is used only by a process whose probe of
\* the shared store failed: a check decided locally was made by a process
\* that ran initialize() and found the store unreachable.
C11_LocalOnlyAfterFailedProbe ==
    Returned /\ last.backend = "memory" => probe_failed[last.proc]


\* The stored state of the key of the check that has just returned, on the
\* backend that decided it.
StoredAfterLast ==
    IF last.backend = "redis"
    THEN [present |-> redis_store[last.key].present,
          tokens |-> redis_store[last.key].tokens,
          last_refill |-> redis_store[last.key].last_refill]
    ELSE local_buckets[last.proc][last.key]

\* C18 as claimed: after a rejected check the stored bucket has last_refill =
\* the time of the check and tokens = the refilled value the check decided
\* on, on both backends.
C18_RejectionPersistsBucket ==
    last.result = "rejected" =>
        /\ StoredAfterLast.present
        /\ StoredAfterLast.last_refill = last.at
        /\ StoredAfterLast.tokens = last.decided

\* C18 on the local backend alone: it holds.
LocalRejectionPersistsBucket ==
    last.backend = "memory" => C18_RejectionPersistsBucket

\* C19 as claimed: a check that reads a clock value earlier than the stored
\* last_refill takes the elapsed time as 0: it decides on the stored token
\* count, neither raised nor lowered.
C19_NegativeElapsedClamped ==
    Returned /\ last.had /\ last.at < last.t0 =>
        last.decided = last.tokens0

\* What the code does instead: the refill formula on the negative elapsed
\* time, which lowers the count.
NegativeElapsedLowersTokens ==
    Returned /\ last.had /\ last.at < last.t0 =>
        /\ last.decided = Min(Capacity, last.tokens0
                             + (last.at - last.t0) * RATE_LIMIT_REQUESTS)
        /\ last.decided < last.tokens0

\* C23 as claimed: on the shared backend every check on a key, admitted or
\* rejected, leaves the key's hash in the store with its time-to-live set
\* anew to 2 * RATE_LIMIT_WINDOW.
C23_EveryCheckRenewsExpiry ==
    Returned /\ last.backend = "redis" =>
        /\ redis_store[last.key].present
        /\ redis_store[last.key].ttl = 2 * RATE_LIMIT_WINDOW

\* What holds of the time-to-live: an admitted check sets it anew, a rejected
\* one leaves the hash, if there is one, with the time-to-live it had.
AdmissionRenewsExpiry ==
    last.result = "admitted" /\ last.backend = "redis" =>
        /\ redis_store[last.key].present
        /\ redis_store[last.key].ttl = 2 * RATE_LIMIT_WINDOW

\* C24 as claimed: a check moves the token count of its bucket in two ways
\* only: the refill step, which never lowers it, and the admission, which
\* lowers the refilled count by exactly the cost; a rejected check never
\* leaves the stored count lower than it found it.
C24_TokensMoveByRefillAndCost ==
    Returned =>
        /\ last.had => last.decided >= last.tokens0
        /\ last.result = "admitted" =>
              StoredAfterLast.tokens = last.decided - last.cost * Unit
        /\ last.result = "rejected" /\ last.had =>
              StoredAfterLast.tokens >= last.tokens0

\* The same while the clock has never gone back: it holds.
TokensMoveByRefillAndCostMonotone == ~skewed => C24_TokensMoveByRefillAndCost

(***************************************************************************)
(* Claims on the request path and the streaming relay                      *)
(***************************************************************************)

Terminal(frame) == frame.kind \in {"done", "error"}
CountOf(frames, kinds) ==
    Cardinality({i \in 1..Len(frames) : frames[i].kind \in kinds})

\* C2: a session whose upstream sequence has ended, normally or by a failure
\* (also one while opening the call), has written exactly one terminal frame,
\* `data: [DONE]` or one error event, and it is the last frame; no session
\* ever writes two terminal frames or a frame after a terminal one, and a
\* session the client did not leave runs to its normal end.
C2_OneTerminalFrame ==
    /\ CountOf(sess.frames, {"done", "error"}) <= 1
    /\ \A i \in 1..Len(sess.frames) :
          Terminal(sess.frames[i]) => i = Len(sess.frames)
    /\ sess.upstream \in {"closed", "failed"} =>
          /\ CountOf(sess.frames, {"done", "error"}) = 1
          /\ Terminal(sess.frames[Len(sess.frames)])
    /\ SessionOver /\ sess.client = "connected" => sess.gen = "ended"

\* C2 witness: a session has ended with [DONE] after at least two events.
C2_EndedWithDone ==
    /\ sess.gen = "ended" /\ sess.upstream = "closed"
    /\ Len(sess.frames) >= 3
    /\ sess.frames[Len(sess.frames)] = DoneFrame

\* C3 as claimed: a failure of the shared store during a check is never
\* surfaced: the check does not raise, no exception leaves the middleware and
\* no chat endpoint answers 500 because of it.
C3_StoreFailureNeverSurfaces ==
    /\ last.result # "raised"
    /\ req.status # "exception"
    /\ (req.status = "500" => req.ep # "raised")

\* C4: an upstream call is opened, and a frame written, only after both
\* admission checks of the request have returned "admitted"; a request that a
\* check rejected is answered 429 at once, with no upstream call and no frame.
C4_AdmissionBeforeUpstream ==
    /\ (req.calls > 0 \/ sess.gen # "none" \/ sess.frames # <<>>
        \/ sess.upstream # "unopened") =>
          req.mw = "admitted" /\ req.ep = "admitted"
    /\ (req.mw = "rejected" \/ req.ep = "rejected") =>
          /\ req.pc = "done" /\ req.status = "429"
          /\ req.calls = 0 /\ sess = NoSession

\* C4 witness: the user check has rejected a streaming request that the
\* middleware had admitted.
C4_StreamRejected ==
    /\ req.route = StreamPath
    /\ req.mw = "admitted" /\ req.ep = "rejected"

\* C5: after an upstream failure (while opening or between chunks) the error
\* event {error: {message, type: "server_error"}} is the last frame written,
\* it is the only error event, no [DONE] is written, the exception does not
\* leave the generator, and a session the client did not leave ends normally.
C5_UpstreamFailureOneErrorEvent ==
    sess.upstream = "failed" =>
        /\ sess.gen # "raised"
        /\ sess.frames # <<>>
        /\ sess.frames[Len(sess.frames)] = ErrorFrame
        /\ CountOf(sess.frames, {"error"}) = 1
        /\ CountOf(sess.frames, {"done"}) = 0
        /\ (SessionOver /\ sess.client = "connected" => sess.gen = "ended")
        /\ req.status = "200"

\* C5 witness: the upstream failed after two events were written, and the
\* session has ended.
C5_FailedMidStream ==
    /\ sess.upstream = "failed" /\ sess.gen = "ended"
    /\ Len(sess.frames) = 3
    /\ sess.client = "connected"

\* C6 as claimed: after the client has disconnected no frame is written, and
\* once the session's generator is gone the upstream call is not left open.
C6_DisconnectClosesUpstream ==
    sess.client = "disconnected" =>
        /\ Len(sess.frames) = sess.cut
        /\ (sess.gen = "gone" => sess.upstream # "open")

\* The first half of C6 alone: no frame is written after the disconnect.
NoFrameAfterDisconnect ==
    sess.client = "disconnected" => Len(sess.frames) = sess.cut

\* C12 as claimed: a request that an admission check rejected, in the
\* middleware or in a chat endpoint, is answered 429 with a retry hint of a
\* positive number of seconds.
C12_RejectionCarriesRetryHint ==
    req.mw = "rejected" \/ req.ep = "rejected" =>
        req.status = "429" /\ req.retry_after > 0

\* The part of C12 that holds: a rejection is answered 429, never 500, and the
\* middleware's rejection carries the hint.
RejectionIs429 ==
    /\ req.mw = "rejected" \/ req.ep = "rejected" => req.status = "429"
    /\ req.mw = "rejected" => req.retry_after = 60

\* The routes under /api/v1/health and /api/v1/auth.
HealthOrAuth(path) ==
    path \in {HealthPath, HealthDetailedPath, AuthLoginPath, AuthRefreshPath}

\* C26 as claimed: a request to a route under /api/v1/health or /api/v1/auth
\* passes the middleware without an admission check, so it takes no token
\* and the middleware never answers it with 429.
C26_HealthAndAuthSkipLimiter ==
    HealthOrAuth(req.route) =>
        /\ req.mw = "none"
        /\ req.status # "429"
        /\ last.result = "none"

\* What the middleware does: the three paths of its list pass without a check
\* and every other path is checked before it reaches the application.
ListedPathsSkipLimiter ==
    /\ SkipsRateLimit(req.route) =>
          req.mw = "none" /\ req.status # "429" /\ last.result = "none"
    /\ req.pc \notin {"idle", "middleware"} /\ ~SkipsRateLimit(req.route) =>
          req.mw # "none"

\* The bucket of key k has changed in this step, in the store or in the map
\* of some process.
BucketChanged(k) ==
    \/ redis_store'[k] # redis_store[k]
    \/ \E p \in Fleet : local_buckets'[p][k] # local_buckets[p][k]

\* A step changes the bucket of a key only by a check on that key.
OwnBucketOnly ==
    \A k \in Keys : BucketChanged(k) => Returned' /\ last'.key = k

\* C27: a check on key k changes at most the bucket of k, on either backend,
\* and a check is rejected only on the state of its own key's bucket: the key
\* has a bucket, and the refill of that bucket's tokens is below the cost.
C27_CheckTouchesOwnBucket ==
    /\ [][OwnBucketOnly]_vars
    /\ [](last.result = "rejected" =>
            /\ last.had
            /\ last.decided = Refill(last.tokens0, last.t0, last.at)
            /\ last.decided < last.cost * Unit)

\* The tokens of key k on the backend of the check that has just returned.
TokensOn(k) ==
    IF last.backend = "redis" THEN redis_store[k]
    ELSE local_buckets[last.proc][k]

\* C27 witness: a check on one key has just been admitted from a full bucket
\* while the bucket of another key, of the same backend, is exhausted.
C27_AdmittedBesideExhausted ==
    /\ last.result = "admitted"
    /\ last.decided = Capacity
    /\ \E k \in Keys \ {last.key} :
          TokensOn(k).present /\ TokensOn(k).tokens < Unit

ChatPath(path) == path \in {CompletionsPath, StreamPath}

\* The hash of key k in the store, as a bucket.
SharedBucketOf(k) ==
    [present |-> redis_store[k].present, tokens |-> redis_store[k].tokens,
     last_refill |-> redis_store[k].last_refill]

\* The bucket of the request's ip key on the backend its process uses.
IpBucket ==
    IF UsesRedis(redis_client["p1"])
    THEN SharedBucketOf(IpKey(req.host))
    ELSE local_buckets["p1"][IpKey(req.host)]

\* C30: a chat request makes the ip check in the middleware first and the
\* user check in the endpoint only after the ip check admitted it; the
\* upstream call is opened only after both admitted; and when the user check
\* rejects the request, the token the ip check took is still taken: the ip
\* bucket holds what that check left in it.
C30_IpCheckThenUserCheck ==
    ChatPath(req.route) =>
        /\ req.pc \notin {"idle", "middleware"} => req.mw # "none"
        /\ req.ep # "none" => req.mw = "admitted"
        /\ req.calls > 0 \/ sess.upstream # "unopened" =>
              req.mw = "admitted" /\ req.ep = "admitted"
        /\ req.ep = "rejected" =>
              /\ req.status = "429" /\ req.calls = 0
              /\ IpBucket.present
              /\ IpBucket.tokens = req.ip_left
              /\ IpBucket.tokens <= Capacity - Unit

\* C30 witness: the user check has rejected a request whose ip check had
\* just taken the first token of a full ip bucket.
C30_IpTokenSpentOnRejected ==
    /\ ChatPath(req.route)
    /\ req.mw = "admitted" /\ req.ep = "rejected"
    /\ IpBucket.present /\ IpBucket.tokens = Capacity - Unit

(***************************************************************************)
(* Claims on the frames of a streaming session (SpecStream)                *)
(***************************************************************************)

ContentOnly(chunk) ==
    chunk.choices /\ chunk.content \in {"text", "more"} /\ chunk.finish = "None"
FinishOnly(chunk) ==
    chunk.choices /\ chunk.content = "None" /\ chunk.finish # "None"

\* The upstream delivered content-only chunks, then one finish-only chunk, and
\* ended.
ContentThenFinish ==
    /\ sess.upstream = "closed"
    /\ sess.got # <<>>
    /\ FinishOnly(sess.got[Len(sess.got)])
    /\ \A i \in 1..(Len(sess.got) - 1) : ContentOnly(sess.got[i])

\* C13: for n content-only chunks, one finish-only chunk and the end of the
\* upstream, the frames written are the n content events in upstream order,
\* one finish event and [DONE]: n + 2 frames.
C13_ContentFinishDone ==
    ContentThenFinish =>
        sess.frames =
            [i \in 1..(Len(sess.got) + 1) |->
                IF i < Len(sess.got) THEN ContentFrame(sess.got[i])
                ELSE IF i = Len(sess.got) THEN FinishFrame(sess.got[i])
                ELSE DoneFrame]

\* C13 witness: two different texts, a finish reason, the end: four frames,
\* all written.
C13_FourFrames ==
    /\ ContentThenFinish /\ sess.gen = "ended"
    /\ Len(sess.got) = 3
    /\ sess.got[1].content # sess.got[2].content
    /\ Len(sess.frames) = 4

\* C14 as claimed: no response carries the text of an upstream failure, so
\* the response after a failure is the same whatever the text: the 500 of the
\* non-streaming call has its fixed detail, the error event of a stream its
\* fixed message, and no other endpoint answers with the text.
C14_NoUpstreamTextInResponse ==
    /\ req.body \notin ErrorTexts
    /\ req.status = "500" /\ req.body # "none" =>
          req.body = "Internal server error"
    /\ \A i \in 1..Len(sess.frames) :
          sess.frames[i].message \in {"", "Stream error occurred"}

\* The chat endpoints alone are opaque.
ChatResponsesOpaque ==
    req.route \in {CompletionsPath, StreamPath} => C14_NoUpstreamTextInResponse

(***************************************************************************)
(* Claims on concurrent checks on the local backend (SpecTasks)            *)
(***************************************************************************)

AdmittedOn(k) == {t \in Tasks : tasks[t].key = k /\ tasks[t].result = "admitted"}

\* C15: on the local backend, with no time passing, no task is suspended
\* between reading and writing the bucket, the bucket of a key holds the
\* capacity less one token per admitted check (no update is lost), and at
\* most `capacity` checks of cost 1 are admitted, whatever the interleaving.
C15_LocalChecksSerial ==
    /\ \A t \in Tasks : tasks[t].pc # "passed"
    /\ \A k \in Keys :
          /\ Cardinality(AdmittedOn(k)) <= RATE_LIMIT_REQUESTS
          /\ \A p \in Procs :
                local_buckets[p][k].present =>
                    local_buckets[p][k].tokens =
                        Capacity - Unit * Cardinality(AdmittedOn(k))

\* C15 witness: every task has made its check on one key: `capacity` of them
\* were admitted and the others rejected.
C15_AllReturnedSomeRejected ==
    \E k \in Keys :
        /\ \A t \in Tasks : tasks[t].key = k /\ tasks[t].pc = "returned"
        /\ Cardinality(AdmittedOn(k)) = RATE_LIMIT_REQUESTS
        /\ \E t \in Tasks : tasks[t].result = "rejected"

(***************************************************************************)
(* Claims on the parameters of the upstream call (SpecParams)              *)
(***************************************************************************)

\* C16 as claimed: every parameter the caller set, an explicit 0 included,
\* reaches the upstream call unchanged, and an unset one gets its default, in
\* the streaming and in the non-streaming call.
C16_ExplicitParametersPassThrough ==
    call.made =>
        \A name \in ParamNames :
            call.sent[name] = IF call.request[name].set
                              THEN call.request[name].val
                              ELSE Defaults[name]

\* What holds of the parameters: a value that is not 0 passes unchanged and an
\* unset parameter gets its default.
NonZeroParametersPassThrough ==
    call.made =>
        \A name \in ParamNames :
            /\ call.request[name].set
               /\ ~Falsy(name, call.request[name].val) =>
                  call.sent[name] = call.request[name].val
            /\ ~call.request[name].set => call.sent[name] = Defaults[name]

(***************************************************************************)
(* Claims on login (SpecAuth)                                              *)
(***************************************************************************)

\* The user of the last answer exists, is active and gave the right password.
GoodCredentials ==
    LET user == auth.users[auth.answer.username]
    IN  /\ user.present
        /\ user.is_active
        /\ auth.answer.password = user.hashed_password

\* C17: a login answers with a token only when the user exists, is active
\* and the password is right, and then it does unless the database failed;
\* a login of an unknown user, with a wrong password or of an inactive user
\* is a 401 without a token; and a login leaves the users table as it was.
C17_LoginOnlyForActiveUser ==
    auth.answer.op = "login" =>
        /\ auth.answer.token # "none" =>
              GoodCredentials /\ auth.answer.status = "200"
        /\ auth.answer.status # "500" =>
              auth.answer.status = IF GoodCredentials THEN "200" ELSE "401"
        /\ auth.answer.status = "401" => auth.answer.token = "none"
        /\ auth.answer.status = "200" => auth.answer.token # "none"
        /\ auth.users = auth.before

\* C17 witness: an inactive user gave the right password and got a 401.
C17_InactiveUserRefused ==
    /\ auth.answer.op = "login"
    /\ auth.users[auth.answer.username].present
    /\ ~auth.users[auth.answer.username].is_active
    /\ auth.answer.password = auth.users[auth.answer.username].hashed_password
    /\ auth.answer.status = "401" /\ auth.answer.token = "none"

\* C20 as claimed: once a finish event is written, the only frame that
\* follows it is `data: [DONE]`: no event of a later upstream chunk is
\* written after it.
C20_FinishThenDoneOnly ==
    \A i \in 1..Len(sess.frames) :
        sess.frames[i].kind = "finish" =>
            \/ i = Len(sess.frames)
            \/ i + 1 = Len(sess.frames) /\ sess.frames[i + 1] = DoneFrame

\* The content part of C20 alone: no content event follows a finish event.
NoContentAfterFinish ==
    \A i, j \in 1..Len(sess.frames) :
        i < j /\ sess.frames[i].kind = "finish" =>
            sess.frames[j].kind # "content"

\* The chunks with a first choice whose delta.content is text, and the chunks
\* with a first choice whose delta.content is not None.
NonEmptyContent(chunk) == chunk.choices /\ chunk.content \notin {"None", ""}
ContentNotNone(chunk) == chunk.choices /\ chunk.content # "None"
ChunksOf(got, Has(_)) == Cardinality({i \in 1..Len(got) : Has(got[i])})

\* Every event of the chunks received so far has been written.
AllEventsWritten == sess.gen = "awaiting" /\ sess.client = "connected"

\* C21 as claimed: a chunk gives one content event if and only if its first
\* choice carries non-empty content: no content event carries the empty
\* string, and there are as many content events as chunks of non-empty content.
C21_ContentEventIffNonEmpty ==
    /\ \A i \in 1..Len(sess.frames) :
          sess.frames[i].kind = "content" =>
              sess.frames[i].content \notin {"None", ""}
    /\ AllEventsWritten =>
          CountOf(sess.frames, {"content"}) = ChunksOf(sess.got, NonEmptyContent)

\* What the code does: one content event for every chunk whose first choice
\* has a content that is not None, the empty string included.
ContentEventIffNotNone ==
    /\ \A i \in 1..Len(sess.frames) :
          sess.frames[i].kind = "content" => sess.frames[i].content # "None"
    /\ AllEventsWritten =>
          CountOf(sess.frames, {"content"}) = ChunksOf(sess.got, ContentNotNone)

(***************************************************************************)
(* Claims on concurrent checks on the shared backend (SpecShared)          *)
(***************************************************************************)

\* What a task's own read lets it decide on, and the hash it writes.
OwnStep(task) == RedisStep(task.bucket_data, task.current_time, task.requests)

\* C22: on the shared backend the read and the write of a check are separate
\* round trips with nothing locked in between: a task past its read is
\* admitted on what it read, and its write stores the value computed from
\* that read (the tokens it decided on less its cost, at its own clock
\* value), whatever was written to the key in between.
C22_WriteFromOwnRead ==
    /\ \A t \in RedisTasks :
          tasks[t].pc = "writing" =>
              CanServe(OwnStep(tasks[t]).decided, tasks[t].requests)
    /\ last.result = "admitted" /\ last.backend = "redis" =>
          /\ redis_store[last.key].present
          /\ redis_store[last.key].tokens = last.decided - last.cost * Unit
          /\ redis_store[last.key].last_refill = last.at
          /\ last.decided =
                 Refill(IF last.had THEN last.tokens0 ELSE Capacity,
                        IF last.had THEN last.t0 ELSE last.at, last.at)

\* C22 witness: a lost update. Two tasks read the same state of the bucket at
\* the same clock value, both were admitted, and the stored token count is one
\* cost below what they read, not two.
C22_LostUpdate ==
    \E t1, t2 \in RedisTasks :
        /\ t1 # t2
        /\ tasks[t1].result = "admitted" /\ tasks[t2].result = "admitted"
        /\ tasks[t1].key = tasks[t2].key
        /\ tasks[t1].bucket_data = tasks[t2].bucket_data
        /\ tasks[t1].current_time = tasks[t2].current_time
        /\ tasks[t1].bucket_data.present
        /\ redis_store[tasks[t1].key].tokens =
               OwnStep(tasks[t1]).decided - Unit
        /\ OwnStep(tasks[t1]).decided < 2 * Unit

\* C29: under every interleaving of the reads and writes of concurrent checks
\* on one key, while the clock never goes back, every token count in the
\* store, and every one a task is about to write, is within 0..capacity.
C29_StoredTokensInRange ==
    /\ \A k \in Keys : redis_store[k].present => InRange(redis_store[k].tokens)
    /\ \A t \in RedisTasks :
          tasks[t].pc = "writing" => InRange(OwnStep(tasks[t]).bucket.tokens)

\* C29 witness: the race has admitted more checks than the capacity at one
\* clock value, and the stored token count is within its bounds.
C29_OverAdmitted ==
    /\ Cardinality({t \in RedisTasks : /\ tasks[t].result = "admitted"
                                       /\ tasks[t].current_time = now})
           > RATE_LIMIT_REQUESTS
    /\ redis_store["user:42"].present
    /\ InRange(redis_store["user:42"].tokens)

(***************************************************************************)
(* Claims on a fleet of processes (SpecFleet)                              *)
(***************************************************************************)

\* Every process of the fleet serves on the local backend.
AllLocal ==
    \A p \in Fleet : phase[p] = "serving" /\ ~UsesRedis(redis_client[p])

\* The fleet's capacity on the local backend: capacity x processCount.
FleetCapacity == RATE_LIMIT_REQUESTS * Cardinality(Fleet)

\* A step changes the map of a process only by a local check of that process.
OwnMapOnly ==
    \A p \in Fleet :
        local_buckets'[p] # local_buckets[p] =>
            last'.proc = p /\ last'.backend = "memory"

\* C25: with every process on the local backend, no time passing and the
\* buckets full at first, the fleet admits at most capacity x processCount
\* checks of cost 1 on one key, no process more than `capacity` (its bucket
\* is never negative), and a check of one process never changes the map of
\* another.
C25_QuotaPerProcess ==
    /\ [](AllLocal =>
            \A k \in Keys :
                /\ win[k].open /\ win[k].pure => win[k].admits <= FleetCapacity
                /\ \A p \in Fleet :
                      local_buckets[p][k].present =>
                          InRange(local_buckets[p][k].tokens))
    /\ [][OwnMapOnly]_vars

\* C25 witness: the fleet has admitted capacity x processCount checks on one
\* key, every process's bucket is empty, and a further check was rejected.
C25_FleetCapacityReached ==
    /\ AllLocal
    /\ \E k \in Keys :
          /\ win[k].open /\ win[k].pure
          /\ win[k].admits = FleetCapacity
          /\ win[k].checks > FleetCapacity
          /\ \A p \in Fleet : /\ local_buckets[p][k].present
                              /\ local_buckets[p][k].tokens = 0
    /\ last.result = "rejected"

(***************************************************************************)
(* Claims on the two backends side by side (SpecBoth)                      *)
(***************************************************************************)

ExpiredInStoreKeptInMap ==
    \E k \in KeysRL :
        ~redis_store[k].present /\ local_buckets["p2"][k].present

====
